---- MODULE Spec2Model ----
(***************************************************************************)
(* The cooking scheduler: the task store and request handlers of app.py    *)
(* and the optimisation model that main.run_optimizer builds and solves.   *)
(*                                                                         *)
(* The binary decision variables start[key, t] of the model are            *)
(* represented by a function s from task keys to time slots: s[key] = t    *)
(* stands for start[key, t] = 1 and start[key, t'] = 0 for t' # t, which   *)
(* is what constraint 1 (exactly one start per key) leaves of the 0/1      *)
(* matrices.  StartVar gives back the 0/1 value of one variable.  The      *)
(* solver is a black box that returns any assignment of least makespan     *)
(* among those the constraints accept, or reports that there is none.      *)
(* Each request handler of app.py is one step.                             *)
(***************************************************************************)
EXTENDS Integers, Sequences, FiniteSets, TLC

VARIABLES tasks, response

vars == <<tasks, response>>

(* The bound of the model: add_task is taken while the store holds fewer tasks. *)
MaxTasks == 2

(* Request payloads: the dishes, the task types and the numbers a client sends. *)
Names == {"egg", "rice"}
RequestTypes == {"chop", "fry", "steam", "bake"}
Durations == {1, 2}
Sequences == {1, 2}
TaskModel == [name : Names, task_type : RequestTypes, duration : Durations, sequence : Sequences]

(* app.py: the task types add_task accepts. *)
ValidTaskTypes == {"chop", "fry", "wash", "steam"}

(* main.py: exclusive_tasks. *)
exclusive_tasks == {"chop", "fry", "wash"}

(* task.name + "_" + task.task_type; no task type contains "_", so the key
   determines the pair. *)
Key(task) == <<task.name, task.task_type>>

Keys(ts) == {Key(ts[i]) : i \in 1..Len(ts)}

RECURSIVE SumDurations(_)
SumDurations(ts) == IF ts = <<>> THEN 0 ELSE Head(ts).duration + SumDurations(Tail(ts))

(* A horizon that covers only the longest task. *)
HorizonLongestTask(ts) ==
    IF ts = <<>> THEN 0
    ELSE CHOOSE d \in {ts[i].duration : i \in 1..Len(ts)} :
             \A i \in 1..Len(ts) : ts[i].duration <= d

(* len(T) for T = range(sum(task.duration for task in tasks)). *)
Horizon(ts) == SumDurations(ts)

(* The slots range(H). *)
T(H) == 0..(H - 1)

(* The assignments of the decision variables that constraint 1 accepts, for
   the horizon H. *)
Assignments(ts, H) == [Keys(ts) -> T(H)]

StartVar(s, key, t) == IF s[key] = t THEN 1 ELSE 0

(* quicksum(start[key, t_prime] for t_prime in range(lo, hi)) *)
WindowSum(s, key, lo, hi) == IF lo <= s[key] /\ s[key] < hi THEN 1 ELSE 0

Min(a, b) == IF a <= b THEN a ELSE b

Max(a, b) == IF a >= b THEN a ELSE b

(* Constraint 1: the starts of each task over the horizon sum to 1. *)
Constraint1(ts, H, s) ==
    \A i \in 1..Len(ts) : WindowSum(s, Key(ts[i]), 0, H) = 1

(* Constraint 2: for every window [t, t + duration) inside the horizon, the
   starts of the task in the window sum to at most its duration. *)
Constraint2(ts, H, s) ==
    \A i \in 1..Len(ts) : \A t \in T(H) :
        t + ts[i].duration <= H
            => WindowSum(s, Key(ts[i]), t, t + ts[i].duration) <= ts[i].duration

(* dishes[name]: the positions of the dish's tasks, in input order. *)
DishIndices(ts, dish) == {i \in 1..Len(ts) : ts[i].name = dish}

DishNames(ts) == {ts[i].name : i \in 1..Len(ts)}

(* The dish list left in input order. *)
SortRankInputOrder(ts, dish, i) ==
    1 + Cardinality({j \in DishIndices(ts, dish) : j < i})

(* dish_tasks.sort(key=lambda x: x.sequence): a stable sort, so tasks of equal
   sequence keep their input order.  SortRank is the position after the sort. *)
SortRank(ts, dish, i) ==
    1 + Cardinality({j \in DishIndices(ts, dish) :
                        \/ ts[j].sequence < ts[i].sequence
                        \/ ts[j].sequence = ts[i].sequence /\ j < i})

SortedDish(ts, dish) ==
    [p \in 1..Cardinality(DishIndices(ts, dish)) |->
        CHOOSE i \in DishIndices(ts, dish) : SortRank(ts, dish, i) = p]

(* The pairs (task_1, task_2) of positions that constraint 3 relates:
   dish_tasks[i], dish_tasks[i + 1] of every sorted dish list. *)
SequencePairs(ts) ==
    UNION {LET dish_tasks == SortedDish(ts, dish)
           IN  {<<dish_tasks[p], dish_tasks[p + 1]>> : p \in 1..(Len(dish_tasks) - 1)}
           : dish \in DishNames(ts)}

(* Constraint 3, for the pairs of SequencePairs:
   sum((t + d1) * start[k1, t]) <= sum(t * start[k2, t]). *)
Constraint3(ts, pairs, s) ==
    \A pr \in pairs :
        s[Key(ts[pr[1]])] + ts[pr[1]].duration <= s[Key(ts[pr[2]])]

(* Every other task, whatever its type. *)
OtherTasks(ts, i) == {j \in 1..Len(ts) : j # i}

(* The positions of the exclusive tasks other than task i. *)
OtherExclusive(ts, i) ==
    {j \in 1..Len(ts) : ts[j].task_type \in exclusive_tasks /\ j # i}

RECURSIVE SumOver(_, _, _, _, _)
SumOver(ts, s, js, lo, hi) ==
    IF js = {} THEN 0
    ELSE LET j == CHOOSE x \in js : TRUE
         IN  WindowSum(s, Key(ts[j]), lo, hi) + SumOver(ts, s, js \ {j}, lo, hi)

(* Constraint 4 with a window of one slot: it forbids only two exclusive
   starts in the same slot. *)
Constraint4StartCollision(ts, H, s) ==
    \A i \in 1..Len(ts) :
        ts[i].task_type \in exclusive_tasks =>
            \A t \in T(H) :
                SumOver(ts, s, OtherExclusive(ts, i), t, Min(t + 1, H))
                    <= (1 - StartVar(s, Key(ts[i]), t)) * H

(* Constraint 4: for an exclusive task and every slot t, the starts of the
   other exclusive tasks in [t, min(t + duration, len(T))) sum to at most
   (1 - start[key, t]) * len(T). *)
Constraint4(ts, H, s) ==
    \A i \in 1..Len(ts) :
        ts[i].task_type \in exclusive_tasks =>
            \A t \in T(H) :
                SumOver(ts, s, OtherExclusive(ts, i), t, Min(t + ts[i].duration, H))
                    <= (1 - StartVar(s, Key(ts[i]), t)) * H

ModelConstraints(ts, H, pairs, s) ==
    /\ Constraint1(ts, H, s)
    /\ Constraint2(ts, H, s)
    /\ Constraint3(ts, pairs, s)
    /\ Constraint4(ts, H, s)

(* The assignments the model accepts. *)
Feasible(ts) ==
    LET H == Horizon(ts)
        pairs == SequencePairs(ts)
    IN  {s \in Assignments(ts, H) : ModelConstraints(ts, H, pairs, s)}

RECURSIVE MaxEnd(_, _, _)
MaxEnd(ts, s, n) ==
    IF n = 0 THEN 0 ELSE Max(s[Key(ts[n])] + ts[n].duration, MaxEnd(ts, s, n - 1))

(* The least value of the makespan variable: makespan >= t + duration at the
   start slot of every task. *)
Makespan(ts, s) == MaxEnd(ts, s, Len(ts))

(* A solve that stops at the first feasible assignment. *)
OptimalAnyFeasible(ts) == Feasible(ts)

(* m.optimize(): the assignments of least makespan; none when the model is
   infeasible (m.status # GRB.OPTIMAL). *)
Optimal(ts) ==
    LET F == Feasible(ts)
        spans == {Makespan(ts, s) : s \in F}
    IN  {s \in F : \A v \in spans : Makespan(ts, s) <= v}

(* The schedule read off an assignment: one entry per key, written in task
   order, so a later task of the same key overwrites an earlier one. *)
Extract(ts, s) ==
    [key \in Keys(ts) |->
        LET last == CHOOSE i \in 1..Len(ts) :
                        /\ Key(ts[i]) = key
                        /\ \A j \in 1..Len(ts) : Key(ts[j]) = key => j <= i
        IN  [start_time |-> s[key], end_time |-> s[key] + ts[last].duration]]

EmptySchedule == [key \in {} |-> [start_time |-> 0, end_time |-> 0]]

(* main.run_optimizer: the schedules it may return for a task list. *)
run_optimizer(ts) ==
    LET opt == Optimal(ts)
    IN  IF opt = {} THEN {EmptySchedule} ELSE {Extract(ts, s) : s \in opt}

NoResponse == [op |-> "none", code |-> 0, status |-> "", schedule |-> EmptySchedule]

Init ==
    /\ tasks = <<>>
    /\ response = NoResponse

(* add_task without the check of task_type. *)
add_taskUnchecked(task) ==
    /\ tasks' = Append(tasks, task)
    /\ response' = [op |-> "add_task", code |-> 200, status |-> "Task added successfully",
                    schedule |-> EmptySchedule]

(* POST /add_task/ *)
add_task(task) ==
    IF task.task_type \notin ValidTaskTypes
    THEN /\ response' = [op |-> "add_task", code |-> 400, status |-> "Invalid task_type",
                         schedule |-> EmptySchedule]
         /\ UNCHANGED tasks
    ELSE /\ tasks' = Append(tasks, task)
         /\ response' = [op |-> "add_task", code |-> 200, status |-> "Task added successfully",
                         schedule |-> EmptySchedule]

AddTask == \E task \in TaskModel : Len(tasks) < MaxTasks /\ add_task(task)

(* POST /run_optimizer/ *)
RunOptimizer ==
    /\ IF tasks = <<>>
       THEN response' = [op |-> "run_optimizer", code |-> 400, status |-> "No tasks available",
                         schedule |-> EmptySchedule]
       ELSE \E schedule \in run_optimizer(tasks) :
                response' = [op |-> "run_optimizer", code |-> 200,
                             status |-> "Optimization completed successfully",
                             schedule |-> schedule]
    /\ UNCHANGED tasks

(* DELETE /tasks/ *)
ClearTasks ==
    /\ tasks' = <<>>
    /\ response' = [op |-> "clear_tasks", code |-> 200, status |-> "All tasks cleared",
                    schedule |-> EmptySchedule]

Next == AddTask \/ RunOptimizer \/ ClearTasks

Spec == Init /\ [][Next]_vars

(***************************************************************************)
(* The properties.  They are stated over start and end times, without the  *)
(* operators of the model above.                                           *)
(***************************************************************************)

Ran == response.op = "run_optimizer"

Returned == Ran /\ response.code = 200

Scheduled == DOMAIN response.schedule

IsExclusive(task) == task.task_type \in {"chop", "fry", "wash"}

(* The half-open intervals [a1, b1) and [a2, b2) share a slot. *)
Overlap(a1, b1, a2, b2) ==
    (IF a1 >= a2 THEN a1 ELSE a2) < (IF b1 <= b2 THEN b1 ELSE b2)

(* Tasks i and j belong to one dish and are consecutive in its order of
   sequence values, i the earlier. *)
ConsecutiveInDish(ts, i, j) ==
    /\ ts[i].name = ts[j].name
    /\ ts[i].sequence < ts[j].sequence
    /\ ~ \E k \in 1..Len(ts) :
            /\ ts[k].name = ts[i].name
            /\ ts[i].sequence < ts[k].sequence
            /\ ts[k].sequence < ts[j].sequence

(* The input a validating registry accepts. *)
ValidTaskList(ts) ==
    /\ \A i \in 1..Len(ts) :
          /\ ts[i].duration > 0
          /\ ts[i].task_type \in {"chop", "fry", "wash", "steam"}
    /\ \A i, j \in 1..Len(ts) :
          i # j => /\ <<ts[i].name, ts[i].task_type>> # <<ts[j].name, ts[j].task_type>>
                   /\ ts[i].name = ts[j].name => ts[i].sequence # ts[j].sequence

HasSequenceTie(ts) ==
    \E i, j \in 1..Len(ts) :
        i # j /\ ts[i].name = ts[j].name /\ ts[i].sequence = ts[j].sequence

(* Start times, one per task position: precedence within the dishes and no
   overlap of exclusive tasks. *)
RespectsPrecedence(ts, st) ==
    \A i, j \in 1..Len(ts) :
        ConsecutiveInDish(ts, i, j) => st[i] + ts[i].duration <= st[j]

NoExclusiveOverlap(ts, st) ==
    \A i, j \in 1..Len(ts) :
        i # j /\ IsExclusive(ts[i]) /\ IsExclusive(ts[j])
            => ~Overlap(st[i], st[i] + ts[i].duration, st[j], st[j] + ts[j].duration)

(* The start times by position that an assignment by key stands for. *)
StartTimes(ts, s) == [i \in 1..Len(ts) |-> s[Key(ts[i])]]

RECURSIVE LastEnd(_, _, _)
LastEnd(ts, st, n) ==
    IF n = 0 THEN 0
    ELSE LET e == st[n] + ts[n].duration
             r == LastEnd(ts, st, n - 1)
         IN  IF e >= r THEN e ELSE r

(* The least makespan by exhaustive search over the start times 0..H. *)
BruteForceMakespans(ts) ==
    {LastEnd(ts, st, Len(ts)) :
        st \in {x \in [1..Len(ts) -> 0..Horizon(ts)] :
                    RespectsPrecedence(ts, x) /\ NoExclusiveOverlap(ts, x)}}

(* The latest end time in the returned schedule. *)
ScheduleMakespans == {response.schedule[k].end_time : k \in Scheduled}

IsLeastOf(v, S) == v \in S /\ \A w \in S : v <= w

IsGreatestOf(v, S) == v \in S /\ \A w \in S : v >= w

(* C1: in every returned schedule the [start_time, end_time) intervals of two
   distinct exclusive tasks (chop, fry, wash) do not overlap, and the same
   holds of every assignment that constraint 4 accepts: also when the second
   task starts while the first is running, and when the window of a task is
   cut at the end of the horizon. *)
C1_Exclusivity ==
    Ran =>
        /\ \A i, j \in 1..Len(tasks) :
              /\ i # j /\ IsExclusive(tasks[i]) /\ IsExclusive(tasks[j])
              /\ Key(tasks[i]) \in Scheduled /\ Key(tasks[j]) \in Scheduled
              => ~Overlap(response.schedule[Key(tasks[i])].start_time,
                          response.schedule[Key(tasks[i])].end_time,
                          response.schedule[Key(tasks[j])].start_time,
                          response.schedule[Key(tasks[j])].end_time)
        /\ LET H == Horizon(tasks)
           IN  \A s \in Assignments(tasks, H) :
                   Constraint4(tasks, H, s) => NoExclusiveOverlap(tasks, StartTimes(tasks, s))

(* A run has returned a schedule with two exclusive tasks, one of them longer
   than one slot, and constraint 4 accepts an assignment in which an exclusive
   task runs past the end of the horizon. *)
C1_Witness ==
    /\ Returned
    /\ \E i, j \in 1..Len(tasks) :
          /\ i # j /\ IsExclusive(tasks[i]) /\ IsExclusive(tasks[j])
          /\ tasks[i].duration > 1
          /\ Key(tasks[i]) \in Scheduled /\ Key(tasks[j]) \in Scheduled
          /\ LET H == Horizon(tasks)
             IN  \E s \in Assignments(tasks, H) :
                     /\ Constraint4(tasks, H, s)
                     /\ s[Key(tasks[i])] + tasks[i].duration > H

(* C2: in every returned schedule, two tasks of a dish that are consecutive
   in its order of sequence values satisfy end_time(earlier) <=
   start_time(later), in whatever order the tasks were submitted. *)
C2_Precedence ==
    Returned =>
        \A i, j \in 1..Len(tasks) :
            /\ ConsecutiveInDish(tasks, i, j)
            /\ Key(tasks[i]) \in Scheduled /\ Key(tasks[j]) \in Scheduled
            => response.schedule[Key(tasks[i])].end_time
                   <= response.schedule[Key(tasks[j])].start_time

(* A returned schedule holds two consecutive tasks of a dish that were
   submitted later task first. *)
C2_Witness ==
    /\ Returned
    /\ \E i, j \in 1..Len(tasks) :
          /\ ConsecutiveInDish(tasks, i, j)
          /\ j < i
          /\ Key(tasks[i]) \in Scheduled /\ Key(tasks[j]) \in Scheduled

(* C3: for a valid task list the latest end time of the returned schedule is
   the least makespan that exhaustive search finds among the start times that
   respect precedence and exclusive non-overlap. *)
C3_MakespanOptimal ==
    Returned /\ ValidTaskList(tasks) =>
        \E v \in ScheduleMakespans :
            /\ IsGreatestOf(v, ScheduleMakespans)
            /\ IsLeastOf(v, BruteForceMakespans(tasks))

(* A run has returned the schedule of a valid list in which some feasible
   start times give a larger makespan than the returned one. *)
C3_Witness ==
    /\ Returned /\ ValidTaskList(tasks) /\ Len(tasks) >= 2
    /\ \E v \in BruteForceMakespans(tasks) : \A w \in ScheduleMakespans : v > w

(* The fully serial schedule: the tasks back to back, ordered by sequence
   value and then by position. *)
SerialBefore(ts, i) ==
    {j \in 1..Len(ts) :
        \/ ts[j].sequence < ts[i].sequence
        \/ ts[j].sequence = ts[i].sequence /\ j < i}

RECURSIVE DurationOf(_, _)
DurationOf(ts, js) ==
    IF js = {} THEN 0
    ELSE LET j == CHOOSE x \in js : TRUE IN ts[j].duration + DurationOf(ts, js \ {j})

SerialSchedule(ts) ==
    [key \in Keys(ts) |->
        LET i == CHOOSE x \in 1..Len(ts) : Key(ts[x]) = key
        IN  DurationOf(ts, SerialBefore(ts, i))]

(* C4: for a valid task list the model with horizon sum(duration) accepts
   the fully serial schedule, so it is feasible, and the returned schedule has
   an entry for every task. *)
C4_HorizonSufficient ==
    Ran /\ tasks # <<>> /\ ValidTaskList(tasks) =>
        /\ SerialSchedule(tasks) \in Feasible(tasks)
        /\ response.code = 200
        /\ Scheduled = {<<tasks[i].name, tasks[i].task_type>> : i \in 1..Len(tasks)}

(* A run has returned for a valid list of at least two tasks of which one
   takes more than one slot. *)
C4_Witness ==
    /\ Returned /\ ValidTaskList(tasks) /\ Len(tasks) >= 2
    /\ \E i \in 1..Len(tasks) : tasks[i].duration > 1
    /\ Scheduled # {}

(* C5: when the solve does not end Optimal, run_optimizer fails with an error
   that reaches the caller; it does not answer as if the run had succeeded. *)
C5_NoSilentFallback ==
    Ran /\ tasks # <<>> /\ Optimal(tasks) = {} => response.code # 200

(* C6: a task list that is not valid (a duration <= 0, an unrecognized type,
   a duplicate key, two tasks of a dish with one sequence value) is rejected:
   no run answers it with a schedule. *)
C6_InputValidation ==
    Returned /\ Scheduled # {} => ValidTaskList(tasks)

(* C7: a dish with two tasks of the same sequence value makes the run fail;
   no schedule that orders the two tasks is returned. *)
C7_InfeasibilityDetected ==
    Ran /\ HasSequenceTie(tasks) => ~(response.code = 200 /\ Scheduled # {})

(* C8: for a valid task list the model rejects no assignment that respects
   precedence within the dishes and non-overlap of the exclusive tasks; in
   particular none in which a parallel task overlaps another task. *)
C8_ParallelNonInterference ==
    Ran /\ ValidTaskList(tasks) =>
        LET H == Horizon(tasks)
            pairs == SequencePairs(tasks)
        IN  \A s \in Assignments(tasks, H) :
                /\ RespectsPrecedence(tasks, StartTimes(tasks, s))
                /\ NoExclusiveOverlap(tasks, StartTimes(tasks, s))
                => ModelConstraints(tasks, H, pairs, s)

(* A run on a valid list in which the model accepts an assignment where a
   parallel task overlaps an exclusive task. *)
C8_Witness ==
    /\ Returned /\ ValidTaskList(tasks)
    /\ \E s \in Feasible(tasks) :
          \E i, j \in 1..Len(tasks) :
              /\ ~IsExclusive(tasks[i]) /\ IsExclusive(tasks[j])
              /\ Overlap(s[Key(tasks[i])], s[Key(tasks[i])] + tasks[i].duration,
                         s[Key(tasks[j])], s[Key(tasks[j])] + tasks[j].duration)

(* C9: add_task with a task type outside chop, fry, wash, steam fails and
   leaves the stored list as it was; every stored task, and so every task
   handed to the optimizer, has a recognized type. *)
C9_IntakeRejection ==
    [][/\ \A i \in 1..Len(tasks') : tasks'[i].task_type \in {"chop", "fry", "wash", "steam"}
       /\ response'.op = "add_task" /\ response'.code = 400 => tasks' = tasks]_vars

(* add_task has been rejected while tasks are stored. *)
C9_Witness ==
    response.op = "add_task" /\ response.code = 400 /\ tasks # <<>>

(* C10: no state is shared between runs: once a run has returned, the task
   collection of the next run starts empty, so the first add_task after a run
   leaves exactly the task it submitted for the next run to read. *)
C10_RunIsolation ==
    [][Returned /\ response'.op = "add_task" /\ response'.code = 200
           => Len(tasks') = 1]_vars

====
